---- MODULE Spec2Model ----
(***************************************************************************)
(* Model of the Reminders CLI integration: the API client (api.py), the    *)
(* data update coordinator (__init__.py) and the to-do list entity         *)
(* (todo.py).  Python strings are sequences of one-character strings, so   *)
(* that startswith, replace and quote are computed as the code computes    *)
(* them.  Python's None is the one-element sequence None, which is equal   *)
(* to no string.                                                           *)
(***************************************************************************)
EXTENDS Integers, Sequences, FiniteSets, TLC

VARIABLES
    lists_meta,   \* coordinator.lists_meta: list id -> list_info
    lists_data,   \* coordinator.lists_data: list id -> sequence of reminders
    opPc,         \* where the entity's running operation is suspended
    op,           \* the locals of that operation
    calls,        \* the requests the operation has issued, in order
    outcome,      \* what the operation returned or raised
    notified,     \* async_set_updated_data calls made by the operation
    pollPc,       \* where the running full poll is suspended
    poll,         \* the locals of _async_update_data, and what each fetch gave
    pollCalls,    \* the requests the poll has issued, in order
    pollOutcome,  \* how the last poll ended
    listening,    \* the to-do platform is set up: _sync_entities is a listener
    known_ids,    \* known_ids of todo.async_setup_entry
    entities,     \* list id -> number of entities added for it
    uid_arg,      \* argument of a call of _extract_reminder_id
    extract_ret   \* what that call returned or raised

vars == <<lists_meta, lists_data, opPc, op, calls, outcome, notified,
          pollPc, poll, pollCalls, pollOutcome, listening, known_ids, entities,
          uid_arg, extract_ret>>

pollVars == <<pollPc, poll, pollCalls, pollOutcome>>
platformVars == <<listening, known_ids, entities>>

snapshot == <<lists_meta, lists_data>>
opVars == <<opPc, op, calls, outcome, notified>>
extractVars == <<uid_arg, extract_ret>>

----------------------------------------------------------------------------
(* Python values *)

None == <<"<None>">>

\* Python truthiness of a str | None value: None and "" are falsy.
Truthy(s) == s # None /\ s # <<>>

\* isinstance(v, str)
IsStr(s) == s # None

\* str.startswith
StartsWith(s, p) == Len(s) >= Len(p) /\ SubSeq(s, 1, Len(p)) = p

\* str.replace(old, new): every non-overlapping occurrence, left to right.
RECURSIVE Replace(_, _, _)
Replace(s, old, new) ==
    IF s = <<>> THEN <<>>
    ELSE IF StartsWith(s, old)
         THEN new \o Replace(SubSeq(s, Len(old) + 1, Len(s)), old, new)
         ELSE <<Head(s)>> \o Replace(Tail(s), old, new)

----------------------------------------------------------------------------
(* Python datetime values and the ISO-8601 conversions the code uses *)

Digits == <<"0","1","2","3","4","5","6","7","8","9">>

IsDigit(c) == \E i \in 1..10 : Digits[i] = c

DigitVal(c) == (CHOOSE i \in 1..10 : Digits[i] = c) - 1

TwoDigits(n) == <<Digits[(n \div 10) + 1], Digits[(n % 10) + 1]>>

Num2(s, i) == DigitVal(s[i]) * 10 + DigitVal(s[i + 1])

\* A datetime is its wall-clock time, in seconds, and, when it is aware, its
\* UTC offset in seconds.  The wall clock counts from 2000 with months of 31
\* days, which orders and separates the instants of one month exactly.
NoDate == [kind |-> "none", wall |-> 0, off |-> 0]
Naive(w) == [kind |-> "naive", wall |-> w, off |-> 0]
Aware(w, o) == [kind |-> "aware", wall |-> w, off |-> o]

\* datetime.__eq__ (and None == None): aware values compare as instants, a
\* naive and an aware value are never equal.
DtEq(a, b) ==
    /\ a.kind = b.kind
    /\ a.kind = "naive" => a.wall = b.wall
    /\ a.kind = "aware" => a.wall - a.off = b.wall - b.off

WallOf(y, mo, d, h, mi, s) ==
    (((((y - 2000) * 12 + (mo - 1)) * 31 + (d - 1)) * 24 + h) * 60 + mi) * 60 + s

\* "YYYY-MM-DDTHH:MM:SS" at positions 1..19
IsDateTimeText(s) ==
    /\ Len(s) >= 19
    /\ \A i \in {1,2,3,4,6,7,9,10,12,13,15,16,18,19} : IsDigit(s[i])
    /\ s[5] = "-" /\ s[8] = "-" /\ s[14] = ":" /\ s[17] = ":"
    /\ s[1] = "2" /\ s[2] = "0"
    /\ Num2(s, 6) \in 1..12 /\ Num2(s, 9) \in 1..31
    /\ Num2(s, 12) \in 0..23 /\ Num2(s, 15) \in 0..59 /\ Num2(s, 18) \in 0..59

\* "+HH:MM" or "-HH:MM" at positions 20..25
IsOffsetText(s) ==
    /\ Len(s) = 25
    /\ s[20] \in {"+", "-"}
    /\ \A i \in {21, 22, 24, 25} : IsDigit(s[i])
    /\ s[23] = ":"
    /\ Num2(s, 21) \in 0..23 /\ Num2(s, 24) \in 0..59

WallText(s) ==
    WallOf(2000 + Num2(s, 3), Num2(s, 6), Num2(s, 9), Num2(s, 12), Num2(s, 15), Num2(s, 18))

OffsetOfText(s) ==
    (IF s[20] = "-" THEN -1 ELSE 1) * (Num2(s, 21) * 3600 + Num2(s, 24) * 60)

\* datetime.fromisoformat: a value, or ValueError.
FromIsoFormat(s) ==
    IF IsDateTimeText(s) /\ Len(s) = 19
    THEN [ok |-> TRUE, value |-> Naive(WallText(s))]
    ELSE IF IsDateTimeText(s) /\ IsOffsetText(s)
    THEN [ok |-> TRUE, value |-> Aware(WallText(s), OffsetOfText(s))]
    ELSE [ok |-> FALSE, value |-> NoDate]

OffsetText(o) ==
    LET a == IF o < 0 THEN -o ELSE o
    IN  <<IF o < 0 THEN "-" ELSE "+">> \o TwoDigits(a \div 3600)
            \o <<":">> \o TwoDigits((a \div 60) % 60)

\* datetime.isoformat
IsoFormat(d) ==
    LET w   == d.wall
        s   == w % 60
        mi  == (w \div 60) % 60
        h   == (w \div 3600) % 24
        dd  == ((w \div 86400) % 31) + 1
        mo  == ((w \div (86400 * 31)) % 12) + 1
        y   == w \div (86400 * 31 * 12)
    IN  <<"2", "0">> \o TwoDigits(y) \o <<"-">> \o TwoDigits(mo) \o <<"-">>
            \o TwoDigits(dd) \o <<"T">> \o TwoDigits(h) \o <<":">>
            \o TwoDigits(mi) \o <<":">> \o TwoDigits(s)
            \o (IF d.kind = "aware" THEN OffsetText(d.off) ELSE <<>>)

\* Mutant: the string is parsed as it is, a "Z" suffix not rewritten.
_parse_due_date_AsWritten(due_date_str) ==
    IF ~Truthy(due_date_str) THEN NoDate
    ELSE LET p == FromIsoFormat(due_date_str)
         IN  IF p.ok THEN p.value ELSE NoDate

\* RemindersTodoListEntity._parse_due_date
_parse_due_date(due_date_str) ==
    IF ~Truthy(due_date_str) THEN NoDate
    ELSE LET p == FromIsoFormat(Replace(due_date_str, <<"Z">>, <<"+","0","0",":","0","0">>))
         IN  IF p.ok THEN p.value ELSE NoDate

----------------------------------------------------------------------------
(* api.py: the requests the client issues *)

Unreserved ==
    {"A","B","C","D","E","F","G","H","I","J","K","L","M","N","O","P","Q","R","S",
     "T","U","V","W","X","Y","Z","a","b","c","d","e","f","g","h","i","j","k","l",
     "m","n","o","p","q","r","s","t","u","v","w","x","y","z","0","1","2","3","4",
     "5","6","7","8","9","_",".","-","~"}

PercentCode(c) ==
    CASE c = " " -> <<"%","2","0">>
      [] c = "/" -> <<"%","2","F">>
      [] c = ":" -> <<"%","3","A">>
      [] c = "?" -> <<"%","3","F">>
      [] c = "#" -> <<"%","2","3">>
      [] c = "%" -> <<"%","2","5">>
      [] c = "+" -> <<"%","2","B">>
      [] OTHER   -> <<"%","x","x">>

\* urllib.parse.quote(s, safe='')
RECURSIVE quote(_)
quote(s) ==
    IF s = <<>> THEN <<>>
    ELSE (IF Head(s) \in Unreserved THEN <<Head(s)>> ELSE PercentCode(Head(s)))
            \o quote(Tail(s))

ENDPOINT_LISTS == <<"/","l","i","s","t","s">>
S_slash == <<"/">>
S_reminders == <<"/","r","e","m","i","n","d","e","r","s">>
S_complete == <<"/","c","o","m","p","l","e","t","e">>
S_uncomplete == <<"/","u","n","c","o","m","p","l","e","t","e">>
S_completed_true == <<"?","c","o","m","p","l","e","t","e","d","=","t","r","u","e">>

\* "/lists/{list_name}"
ENDPOINT_LIST_REMINDERS(list_name) == ENDPOINT_LISTS \o S_slash \o list_name

\* "/lists/{list_name}/reminders"
ENDPOINT_CREATE_REMINDER(list_name) ==
    ENDPOINT_LISTS \o S_slash \o list_name \o S_reminders

\* "/lists/{list_name}/reminders/{reminder_id}"
ENDPOINT_UPDATE_REMINDER(list_name, reminder_id) ==
    ENDPOINT_LISTS \o S_slash \o list_name \o S_reminders \o S_slash \o reminder_id

\* "/lists/{list_name}/reminders/{reminder_id}"
ENDPOINT_DELETE_REMINDER(list_name, reminder_id) ==
    ENDPOINT_LISTS \o S_slash \o list_name \o S_reminders \o S_slash \o reminder_id

\* "/lists/{list_name}/reminders/{reminder_id}/complete"
ENDPOINT_COMPLETE_REMINDER(list_name, reminder_id) ==
    ENDPOINT_UPDATE_REMINDER(list_name, reminder_id) \o S_complete

\* "/lists/{list_name}/reminders/{reminder_id}/uncomplete"
ENDPOINT_UNCOMPLETE_REMINDER(list_name, reminder_id) ==
    ENDPOINT_UPDATE_REMINDER(list_name, reminder_id) \o S_uncomplete

\* One call of RemindersAPIClient._request.  json is the dict passed as the
\* body, a set of <<key, value>> pairs; has_json tells {} from no body.
Request(fn, method, endpoint, has_json, json) ==
    [fn |-> fn, method |-> method, endpoint |-> endpoint,
     has_json |-> has_json, json |-> json]

\* RemindersAPIClient.get_lists
get_lists == Request("get_lists", "GET", ENDPOINT_LISTS, FALSE, {})

\* RemindersAPIClient.get_reminders
get_reminders(list_name, include_completed) ==
    Request("get_reminders", "GET",
            ENDPOINT_LIST_REMINDERS(quote(list_name))
                \o (IF include_completed THEN S_completed_true ELSE <<>>),
            FALSE, {})

\* RemindersAPIClient.create_reminder (priority is never passed by the
\* entity): the title always, notes and due date when they are truthy
create_reminder(list_name, title, notes, due_date) ==
    Request("create_reminder", "POST",
            ENDPOINT_CREATE_REMINDER(quote(list_name)),
            TRUE,
            {<<"title", title>>}
                \cup (IF Truthy(notes) THEN {<<"notes", notes>>} ELSE {})
                \cup (IF due_date.kind # "none"
                      THEN {<<"dueDate", IsoFormat(due_date)>>} ELSE {}))

\* RemindersAPIClient.update_reminder (priority is never passed by the entity)
update_reminder(list_name, reminder_id, title, notes, due_date) ==
    Request("update_reminder", "PATCH",
            ENDPOINT_UPDATE_REMINDER(quote(list_name), reminder_id),
            TRUE,
            (IF title # None THEN {<<"title", title>>} ELSE {})
                \cup (IF notes # None THEN {<<"notes", notes>>} ELSE {})
                \cup (IF due_date.kind # "none"
                      THEN {<<"dueDate", IsoFormat(due_date)>>} ELSE {}))

\* RemindersAPIClient.delete_reminder
delete_reminder(list_name, reminder_id) ==
    Request("delete_reminder", "DELETE",
            ENDPOINT_DELETE_REMINDER(quote(list_name), reminder_id), FALSE, {})

\* RemindersAPIClient.complete_reminder
complete_reminder(list_name, reminder_id) ==
    Request("complete_reminder", "PATCH",
            ENDPOINT_COMPLETE_REMINDER(quote(list_name), reminder_id), FALSE, {})

\* RemindersAPIClient.uncomplete_reminder
uncomplete_reminder(list_name, reminder_id) ==
    Request("uncomplete_reminder", "PATCH",
            ENDPOINT_UNCOMPLETE_REMINDER(quote(list_name), reminder_id), FALSE, {})

----------------------------------------------------------------------------
(* todo.py: identifier normalisation *)

\* "x-apple-reminder://"
Marker == <<"x","-","a","p","p","l","e","-","r","e","m","i","n","d","e","r",":","/","/">>

Returned(v) == [raised |-> FALSE, error |-> "", value |-> v]
Raised(e) == [raised |-> TRUE, error |-> e, value |-> None]

\* RemindersTodoListEntity._extract_reminder_id
_extract_reminder_id(uid) ==
    IF ~Truthy(uid) THEN Raised("missing_identifier")
    ELSE IF StartsWith(uid, Marker) THEN Returned(Replace(uid, Marker, <<>>))
    ELSE Returned(uid)

----------------------------------------------------------------------------
(* Python dicts: a dict with string keys is a function; d.get(k, default) *)

EmptyDict == [k \in {} |-> <<>>]

Get(d, k, default) == IF k \in DOMAIN d THEN d[k] ELSE default

Put(d, k, v) == [x \in DOMAIN d \cup {k} |-> IF x = k THEN v ELSE d[x]]

\* A reminder as the API returns it.  A key that is absent or null is None
\* (reminder.get(key) is None for both); isCompleted is absent as FALSE.
Reminder(externalId, uuid, id, title, notes, dueDate, isCompleted) ==
    [externalId |-> externalId, uuid |-> uuid, id |-> id, title |-> title,
     notes |-> notes, dueDate |-> dueDate, isCompleted |-> isCompleted]

\* homeassistant TodoItem: uid, summary, description (str | None),
\* due (datetime | None), status
TodoItem(uid, summary, description, due, status) ==
    [uid |-> uid, summary |-> summary, description |-> description,
     due |-> due, status |-> status]

----------------------------------------------------------------------------
(* todo.py: async_setup_entry and its listener _sync_entities *)

\* _sync_entities, lines 36-45: an entity for every list id of lists_data
\* that is not known yet
SyncedKnown(known, data) == known \cup DOMAIN data

\* Mutant: known_ids is not consulted.
SyncedEntities_EveryTime(known, ents, data) ==
    [l \in DOMAIN ents \cup DOMAIN data |->
        IF l \in DOMAIN data THEN Get(ents, l, 0) + 1 ELSE ents[l]]

SyncedEntities(known, ents, data) ==
    [l \in DOMAIN ents \cup DOMAIN data |->
        IF l \in DOMAIN data /\ l \notin known
        THEN Get(ents, l, 0) + 1
        ELSE ents[l]]

\* DataUpdateCoordinator.async_update_listeners: the listeners run, in the
\* same step, on the data just stored
UpdateListeners(data) ==
    /\ listening' = listening
    /\ known_ids' = IF listening THEN SyncedKnown(known_ids, data) ELSE known_ids
    /\ entities' = IF listening THEN SyncedEntities(known_ids, entities, data) ELSE entities

\* todo.async_setup_entry, lines 32-48, run by __init__.async_setup_entry
\* (line 40) once the first refresh (line 33) has succeeded
SetupEntry ==
    /\ ~listening
    /\ pollPc = "idle" /\ pollOutcome = "ok"
    /\ listening' = TRUE
    /\ known_ids' = SyncedKnown(known_ids, lists_data)
    /\ entities' = SyncedEntities(known_ids, entities, lists_data)
    /\ UNCHANGED <<snapshot, opVars, pollVars, extractVars>>

----------------------------------------------------------------------------
(* __init__.py: RemindersDataUpdateCoordinator.async_refresh_list *)

\* The decoded body of a reply: a JSON list, or null.
JsonNull == [null |-> TRUE, body |-> <<>>]
JsonList(s) == [null |-> FALSE, body |-> s]

\* reminders or []: a null reply (and an empty one) is the empty list.
OrEmpty(reminders) == IF reminders.null THEN <<>> ELSE reminders.body

\* Mutant: a refresh that a full poll has overtaken is discarded.
RefreshedData_UnlessOvertaken(data, list_id, reminders) ==
    IF op.installed_at = "await_refresh" THEN data
    ELSE Put(data, list_id, OrEmpty(reminders))

\* Mutant: the refresh stores a new map that holds this list alone.
RefreshedData_ThisListOnly(data, list_id, reminders) ==
    Put(EmptyDict, list_id, OrEmpty(reminders))

\* lines 126-128, the fetch succeeded: self.lists_data[list_id] = reminders or []
RefreshedData(data, list_id, reminders) == Put(data, list_id, OrEmpty(reminders))

\* Mutant: a failed refresh empties the list, as a failed fetch of a poll does.
RefreshFailedData_Clears(data, list_id) == Put(data, list_id, <<>>)

\* lines 129-131, the fetch failed: logged, nothing written
RefreshFailedData(data, list_id) == data

----------------------------------------------------------------------------
(* __init__.py: RemindersDataUpdateCoordinator._async_update_data *)

\* line 93: list_info.get("uuid") or list_info.get("id")
ListIdOf(list_info) ==
    LET uuid == Get(list_info, "uuid", None)
    IN  IF Truthy(uuid) THEN uuid ELSE Get(list_info, "id", None)

\* Mutant: a list without an identifier is not skipped.
NextIdentified_NoSkip(raw_lists, i) == i

\* lines 92-96: the next list of raw_lists, from index i on, that has an
\* identifier; Len(raw_lists) + 1 when there is none
RECURSIVE NextIdentified(_, _)
NextIdentified(raw_lists, i) ==
    IF i > Len(raw_lists) THEN i
    ELSE IF Truthy(ListIdOf(raw_lists[i])) THEN i
    ELSE NextIdentified(raw_lists, i + 1)

\* line 104: lists_data[list_id] = reminders or []
PolledData(data, list_id, reminders) == Put(data, list_id, OrEmpty(reminders))

\* Mutant: a failed fetch keeps what the snapshot held for the list.
PollFailedData_KeepsStale(data, list_id) ==
    Put(data, list_id, Get(lists_data, list_id, <<>>))

\* lines 105-113: the fetch raised; lists_data[list_id] = []
PollFailedData(data, list_id) == Put(data, list_id, <<>>)

PollLocals(raw_lists, i, meta, data, fetched) ==
    [raw_lists |-> raw_lists, i |-> i, lists_meta |-> meta, lists_data |-> data,
     fetched |-> fetched]

NoPoll == PollLocals(<<>>, 0, EmptyDict, EmptyDict, <<>>)

\* What one fetch of the poll gave: a reply, or an exception.
Fetched(list_id, failed, reminders) ==
    [list_id |-> list_id, failed |-> failed, reminders |-> reminders]

\* History kept with the locals of a running operation: where it stood when
\* a full poll first replaced the snapshot under it.
InstalledUnder(locals) ==
    IF opPc = "idle" \/ locals.installed_at # "none" THEN locals
    ELSE [locals EXCEPT !.installed_at = opPc]

\* A poll is running and has already got the reminders of list_id.
PolledAlready(list_id) ==
    /\ pollPc # "idle"
    /\ \E i \in 1..Len(poll.fetched) :
          poll.fetched[i].list_id = list_id /\ ~poll.fetched[i].failed

\* Mutant: the poll fills the coordinator's maps as it goes.
PollContinue_InPlace(raw_lists, j, meta, data, fetched) ==
    LET k == NextIdentified(raw_lists, j)
    IN  IF k > Len(raw_lists)
        THEN /\ lists_meta' = meta
             /\ lists_data' = data
             /\ UpdateListeners(data)
             /\ poll' = PollLocals(raw_lists, 0, meta, data, fetched)
             /\ pollPc' = "idle"
             /\ pollOutcome' = "ok"
             /\ op' = InstalledUnder(op)
             /\ UNCHANGED pollCalls
        ELSE /\ poll' = PollLocals(raw_lists, k,
                                   Put(meta, ListIdOf(raw_lists[k]), raw_lists[k]),
                                   data, fetched)
             /\ pollCalls' = Append(pollCalls, get_reminders(ListIdOf(raw_lists[k]), TRUE))
             /\ pollPc' = "await_reminders"
             /\ lists_meta' = Put(meta, ListIdOf(raw_lists[k]), raw_lists[k])
             /\ lists_data' = data
             /\ UNCHANGED <<platformVars, pollOutcome, op>>

\* The loop of lines 92-113 from index j up to its next await, or, past the
\* last list, lines 115-117 and the listeners the coordinator then calls.
PollContinue(raw_lists, j, meta, data, fetched) ==
    LET k == NextIdentified(raw_lists, j)
    IN  IF k > Len(raw_lists)
        THEN /\ lists_meta' = meta
             /\ lists_data' = data
             /\ UpdateListeners(data)
             /\ poll' = PollLocals(raw_lists, 0, meta, data, fetched)
             /\ pollPc' = "idle"
             /\ pollOutcome' = "ok"
             /\ op' = InstalledUnder(op)
             /\ UNCHANGED pollCalls
        ELSE /\ poll' = PollLocals(raw_lists, k,
                                   Put(meta, ListIdOf(raw_lists[k]), raw_lists[k]),
                                   data, fetched)
             /\ pollCalls' = Append(pollCalls, get_reminders(ListIdOf(raw_lists[k]), TRUE))
             /\ pollPc' = "await_reminders"
             /\ UNCHANGED <<snapshot, platformVars, pollOutcome, op>>

\* The coordinator starts a poll: line 87 up to the await of get_lists.  No
\* poll is scheduled between the first refresh and the platform's set-up.
PollStart ==
    /\ pollPc = "idle"
    /\ listening \/ pollOutcome # "ok"
    /\ pollPc' = "await_lists"
    /\ poll' = NoPoll
    /\ pollCalls' = <<get_lists>>
    /\ pollOutcome' = "running"
    /\ UNCHANGED <<snapshot, opVars, platformVars, extractVars>>

\* Mutant: a failed enumeration empties the snapshot.
ListsFailed_Clears ==
    /\ pollPc = "await_lists"
    /\ pollPc' = "idle"
    /\ pollOutcome' = "UpdateFailed"
    /\ lists_meta' = EmptyDict
    /\ lists_data' = EmptyDict
    /\ UNCHANGED <<poll, pollCalls, opVars, platformVars, extractVars>>

\* get_lists raised: lines 119-121, UpdateFailed
ListsFailed ==
    /\ pollPc = "await_lists"
    /\ pollPc' = "idle"
    /\ pollOutcome' = "UpdateFailed"
    /\ UNCHANGED <<snapshot, poll, pollCalls, opVars, platformVars, extractVars>>

\* get_lists returned raw_lists: lines 89-101.  Iterating a null body
\* raises, which lines 119-121 turn into UpdateFailed as well.
ListsDone(raw_lists) ==
    /\ pollPc = "await_lists"
    /\ IF raw_lists.null
       THEN /\ pollPc' = "idle"
            /\ pollOutcome' = "UpdateFailed"
            /\ UNCHANGED <<snapshot, poll, pollCalls, platformVars, op>>
       ELSE PollContinue(raw_lists.body, 1, EmptyDict, EmptyDict, <<>>)
    /\ UNCHANGED <<opPc, calls, outcome, notified, extractVars>>

\* get_reminders of list poll.i returned: line 104, then the loop goes on
RemindersDone(reminders) ==
    /\ pollPc = "await_reminders"
    /\ LET list_id == ListIdOf(poll.raw_lists[poll.i])
       IN  PollContinue(poll.raw_lists, poll.i + 1, poll.lists_meta,
                        PolledData(poll.lists_data, list_id, reminders),
                        Append(poll.fetched, Fetched(list_id, FALSE, reminders)))
    /\ UNCHANGED <<opPc, calls, outcome, notified, extractVars>>

\* get_reminders of list poll.i raised: lines 105-113, then the loop goes on
RemindersFailed ==
    /\ pollPc = "await_reminders"
    /\ LET list_id == ListIdOf(poll.raw_lists[poll.i])
       IN  PollContinue(poll.raw_lists, poll.i + 1, poll.lists_meta,
                        PollFailedData(poll.lists_data, list_id),
                        Append(poll.fetched, Fetched(list_id, TRUE, JsonNull)))
    /\ UNCHANGED <<opPc, calls, outcome, notified, extractVars>>

----------------------------------------------------------------------------
(* todo.py: RemindersTodoListEntity *)

\* RemindersTodoListEntity._display_name
_display_name(list_id) ==
    LET title == Get(Get(lists_meta, list_id, EmptyDict), "title", None)
    IN  IF Truthy(title) THEN title ELSE list_id

\* RemindersTodoListEntity._reminder_uid
_reminder_uid(reminder) ==
    LET uid == IF Truthy(reminder.externalId) THEN reminder.externalId
               ELSE IF Truthy(reminder.uuid) THEN reminder.uuid
               ELSE reminder.id
    IN  IF IsStr(uid) THEN uid ELSE None

NoReminder == Reminder(None, None, None, None, None, None, FALSE)

\* async_update_todo_item, lines 152-159: next(generator, None).  The first
\* reminder whose normalised identifier is reminder_id; an exception raised
\* while normalising an earlier one leaves the generator.
RECURSIVE FindCurrent(_, _)
FindCurrent(reminders, reminder_id) ==
    IF reminders = <<>> THEN [status |-> "none", reminder |-> NoReminder]
    ELSE LET e == _extract_reminder_id(_reminder_uid(Head(reminders)))
         IN  IF e.raised THEN [status |-> e.error, reminder |-> NoReminder]
             ELSE IF e.value = reminder_id
                  THEN [status |-> "found", reminder |-> Head(reminders)]
                  ELSE FindCurrent(Tail(reminders), reminder_id)

\* async_update_todo_item, lines 166-174: the deltas
Deltas(item, current_reminder) ==
    LET current_due == _parse_due_date(current_reminder.dueDate)
    IN  [is_completed  |-> item.status = "completed",
         was_completed |-> current_reminder.isCompleted,
         title_changed |-> item.summary # current_reminder.title,
         notes_changed |-> item.description # current_reminder.notes,
         due_changed   |-> ~DtEq(item.due, current_due)]

\* Mutant: the condition looks at the title alone.
FieldsChanged_TitleOnly(d) == d.title_changed

\* title_changed or notes_changed or due_changed (lines 177 and 201)
FieldsChanged(d) == d.title_changed \/ d.notes_changed \/ d.due_changed

\* line 177: only the status changed
StatusOnly(d) == d.is_completed # d.was_completed /\ ~FieldsChanged(d)

\* Mutant: the two endpoints swapped.
StatusCall_Swapped(list_id, reminder_id, is_completed) ==
    IF is_completed THEN uncomplete_reminder(list_id, reminder_id)
    ELSE complete_reminder(list_id, reminder_id)

\* lines 178-185 and 191-198: complete or uncomplete, by the new flag
StatusCall(list_id, reminder_id, is_completed) ==
    IF is_completed THEN complete_reminder(list_id, reminder_id)
    ELSE uncomplete_reminder(list_id, reminder_id)

\* Mutant: every field of the item is sent, changed or not.
UpdateCall_AllFields(list_id, reminder_id, item, d) ==
    update_reminder(list_id, reminder_id, item.summary, item.description, item.due)

\* lines 202-208: a field that did not change is passed as None
UpdateCall(list_id, reminder_id, item, d) ==
    update_reminder(list_id, reminder_id,
                    IF d.title_changed THEN item.summary ELSE None,
                    IF d.notes_changed THEN item.description ELSE None,
                    IF d.due_changed THEN item.due ELSE NoDate)

\* Mutant: the refresh asks for the open reminders only.
RefreshCall_OpenOnly(list_id) == get_reminders(list_id, FALSE)

\* line 210 and async_refresh_list line 126
RefreshCall(list_id) == get_reminders(list_id, TRUE)

Ok == [raised |-> FALSE, error |-> "", names |-> <<>>]
Fail(e, names) == [raised |-> TRUE, error |-> e, names |-> names]
Running == [raised |-> FALSE, error |-> "running", names |-> <<>>]
\* Returned normally after _LOGGER.error (async_refresh_list, line 131)
LoggedRefreshError == [raised |-> FALSE, error |-> "refresh_error_logged", names |-> <<>>]

NoItem == TodoItem(None, None, None, NoDate, "needs_action")
NoDeltas == [is_completed |-> FALSE, was_completed |-> FALSE,
             title_changed |-> FALSE, notes_changed |-> FALSE, due_changed |-> FALSE]

\* The locals of an operation of the entity: of async_update_todo_item,
\* and (uids, i: the loop of lines 217-219) of async_delete_todo_items.
\* History: polled, whether the poll running when the operation started had
\* already got the reminders of its list; installed_at, see InstalledUnder.
OpRecord(kind, list_id, item, reminder_id, found, current, d, polled) ==
    [kind |-> kind, list_id |-> list_id, item |-> item, reminder_id |-> reminder_id,
     found |-> found, current_reminder |-> current, d |-> d,
     uids |-> <<>>, i |-> 0, polled |-> polled, installed_at |-> "none"]

Locals(kind, list_id, item, reminder_id, found, current, d) ==
    OpRecord(kind, list_id, item, reminder_id, found, current, d, PolledAlready(list_id))

CreateLocals(list_id, item) ==
    Locals("create", list_id, item, None, FALSE, NoReminder, NoDeltas)

DeleteLocals(list_id, uids) ==
    [Locals("delete", list_id, NoItem, None, FALSE, NoReminder, NoDeltas)
        EXCEPT !.uids = uids]

NoOp == OpRecord("none", None, NoItem, None, FALSE, NoReminder, NoDeltas, FALSE)

\* The operation ends: it returns, or raises HomeAssistantError to the host.
Finish(result) ==
    /\ opPc' = "done"
    /\ outcome' = result

\* The operation issues a request and is suspended until the reply.
Await(request, pc) ==
    /\ calls' = Append(calls, request)
    /\ opPc' = pc
    /\ outcome' = Running

\* async_update_todo_item, lines 149-198: from the call to the first await
UpdateStart(list_id, item) ==
    /\ opPc = "idle"
    /\ notified' = 0
    /\ UNCHANGED <<snapshot, extractVars, pollVars, platformVars>>
    /\ LET x == _extract_reminder_id(item.uid)
           reminders == Get(lists_data, list_id, <<>>)
           f == IF x.raised THEN [status |-> x.error, reminder |-> NoReminder]
                ELSE FindCurrent(reminders, x.value)
           d == IF f.status = "found" THEN Deltas(item, f.reminder) ELSE NoDeltas
       IN  /\ op' = Locals("update", list_id, item, x.value,
                           f.status = "found", f.reminder, d)
           /\ IF f.status = "none"
              THEN /\ Finish(Fail("not_found", <<item.uid, _display_name(list_id)>>))
                   /\ UNCHANGED calls
              ELSE IF f.status # "found"
              THEN /\ Finish(Fail(f.status, <<>>))
                   /\ UNCHANGED calls
              ELSE IF StatusOnly(d)
              THEN Await(StatusCall(list_id, x.value, d.is_completed), "await_status_only")
              ELSE IF d.is_completed # d.was_completed
              THEN Await(StatusCall(list_id, x.value, d.is_completed), "await_status")
              ELSE IF FieldsChanged(d)
              THEN Await(UpdateCall(list_id, x.value, item, d), "await_update")
              ELSE Await(RefreshCall(list_id), "await_refresh")

\* lines 179-185 returned: the status-only branch goes on to line 210
StatusOnlyDone ==
    /\ opPc = "await_status_only"
    /\ Await(RefreshCall(op.list_id), "await_refresh")
    /\ UNCHANGED <<snapshot, op, notified, extractVars, pollVars, platformVars>>

\* lines 192-198 returned: line 201, then line 202 or line 210
StatusDone ==
    /\ opPc = "await_status"
    /\ IF FieldsChanged(op.d)
       THEN Await(UpdateCall(op.list_id, op.reminder_id, op.item, op.d), "await_update")
       ELSE Await(RefreshCall(op.list_id), "await_refresh")
    /\ UNCHANGED <<snapshot, op, notified, extractVars, pollVars, platformVars>>

\* lines 202-208 returned: line 210
UpdateDone ==
    /\ opPc = "await_update"
    /\ Await(RefreshCall(op.list_id), "await_refresh")
    /\ UNCHANGED <<snapshot, op, notified, extractVars, pollVars, platformVars>>

\* async_create_todo_item, lines 136-142: up to the await of create_reminder
CreateStart(list_id, item) ==
    /\ opPc = "idle"
    /\ notified' = 0
    /\ op' = CreateLocals(list_id, item)
    /\ Await(create_reminder(list_id, item.summary, item.description, item.due),
             "await_create")
    /\ UNCHANGED <<snapshot, extractVars, pollVars, platformVars>>

\* create_reminder returned: line 143
CreateDone ==
    /\ opPc = "await_create"
    /\ Await(RefreshCall(op.list_id), "await_refresh")
    /\ UNCHANGED <<snapshot, op, notified, extractVars, pollVars, platformVars>>

\* async_delete_todo_items, lines 217-221: the loop from index j up to its
\* next await, or, past the last uid, line 221
DeleteContinue(locals, j) ==
    IF j > Len(locals.uids)
    THEN /\ op' = [locals EXCEPT !.i = j]
         /\ Await(RefreshCall(locals.list_id), "await_refresh")
    ELSE LET x == _extract_reminder_id(locals.uids[j])
         IN  IF x.raised
             THEN /\ op' = [locals EXCEPT !.i = j]
                  /\ Finish(Fail(x.error, <<>>))
                  /\ UNCHANGED calls
             ELSE /\ op' = [locals EXCEPT !.i = j, !.reminder_id = x.value]
                  /\ Await(delete_reminder(locals.list_id, x.value), "await_delete")

\* async_delete_todo_items, lines 216-219: from the call to the first await
DeleteStart(list_id, uids) ==
    /\ opPc = "idle"
    /\ notified' = 0
    /\ DeleteContinue(DeleteLocals(list_id, uids), 1)
    /\ UNCHANGED <<snapshot, extractVars, pollVars, platformVars>>

\* delete_reminder returned: the loop goes on
DeleteDone ==
    /\ opPc = "await_delete"
    /\ DeleteContinue(op, op.i + 1)
    /\ UNCHANGED <<snapshot, notified, extractVars, pollVars, platformVars>>

\* Mutant: the failure of a write is logged and swallowed, as the failure
\* of a refresh is.
WriteFailed_Swallowed ==
    /\ opPc \in {"await_status_only", "await_status", "await_update",
                 "await_create", "await_delete"}
    /\ Finish(LoggedRefreshError)
    /\ UNCHANGED <<snapshot, op, calls, notified, extractVars, pollVars, platformVars>>

\* A write request raised (aiohttp.ClientError, a timeout): lines 144-145,
\* 211-212, 222-223
WriteFailed ==
    /\ opPc \in {"await_status_only", "await_status", "await_update",
                 "await_create", "await_delete"}
    /\ Finish(Fail("request_failed", <<Len(calls)>>))
    /\ UNCHANGED <<snapshot, op, calls, notified, extractVars, pollVars, platformVars>>

\* async_refresh_list, lines 126-128: the fetch returned `reminders`
RefreshDone(reminders) ==
    /\ opPc = "await_refresh"
    /\ lists_data' = RefreshedData(lists_data, op.list_id, reminders)
    /\ notified' = notified + 1
    /\ UpdateListeners(RefreshedData(lists_data, op.list_id, reminders))
    /\ Finish(Ok)
    /\ UNCHANGED <<lists_meta, op, calls, extractVars, pollVars>>

\* async_refresh_list, lines 129-131: the fetch raised
RefreshFailed ==
    /\ opPc = "await_refresh"
    /\ lists_data' = RefreshFailedData(lists_data, op.list_id)
    /\ Finish(LoggedRefreshError)
    /\ UNCHANGED <<lists_meta, op, calls, notified, extractVars, pollVars, platformVars>>

\* The host takes the result; the entity is ready for the next request.
OpReturn ==
    /\ opPc = "done"
    /\ opPc' = "idle"
    /\ op' = NoOp
    /\ calls' = <<>>
    /\ outcome' = Ok
    /\ notified' = 0
    /\ UNCHANGED <<snapshot, extractVars, pollVars, platformVars>>

----------------------------------------------------------------------------
(* The identifier specification: _extract_reminder_id on bounded inputs *)

MaxSegs == 3

UidSegs == {Marker, <<"A">>, <<"B">>, <<"-">>}

RECURSIVE SegStrings(_)
SegStrings(n) ==
    IF n = 0 THEN {<<>>}
    ELSE LET p == SegStrings(n - 1) IN p \cup {s \o g : s \in p, g \in UidSegs}

UidInputs == SegStrings(MaxSegs) \cup {None}

NotCalled == [raised |-> FALSE, error |-> "not_called", value |-> None]

OpIdle ==
    /\ opPc = "idle"
    /\ op = NoOp
    /\ calls = <<>>
    /\ outcome = Ok
    /\ notified = 0

PollIdle ==
    /\ pollPc = "idle"
    /\ poll = NoPoll
    /\ pollCalls = <<>>

\* The state after __init__.async_setup_entry has built the coordinator
\* (lines 70-74): no data, no poll yet, no platform.
Constructed ==
    /\ lists_meta = EmptyDict
    /\ lists_data = EmptyDict
    /\ OpIdle
    /\ PollIdle
    /\ pollOutcome = "none"
    /\ listening = FALSE
    /\ known_ids = {}
    /\ entities = EmptyDict

InitExtract ==
    /\ Constructed
    /\ uid_arg \in UidInputs
    /\ extract_ret = NotCalled

CallExtract ==
    /\ extract_ret = NotCalled
    /\ extract_ret' = _extract_reminder_id(uid_arg)
    /\ UNCHANGED <<snapshot, opVars, pollVars, platformVars, uid_arg>>

NextExtract == CallExtract

SpecExtract == InitExtract /\ [][NextExtract]_vars

----------------------------------------------------------------------------
(* The reconciliation specification: async_update_todo_item of the entity  *)
(* of list L1, against every snapshot of that list a poll can have stored  *)

MaxRems == 2

L1 == <<"L","1">>
Home == <<"H","o","m","e">>
R1 == <<"R","1">>
R2 == <<"R","2">>
R3 == <<"R","3">>
Milk == <<"M","i","l","k">>
Eggs == <<"E","g","g","s">>
Note == <<"n">>
Soon == <<"s","o","o","n">>
D10 == <<"2","0","2","4","-","0","1","-","0","1","T","1","0",":","0","0",":","0","0">>
D11 == <<"2","0","2","4","-","0","1","-","0","1","T","1","1",":","0","0",":","0","0">>
D12 == <<"2","0","2","4","-","0","1","-","0","1","T","1","2",":","0","0",":","0","0">>
Zulu == <<"Z">>
Utc == <<"+","0","0",":","0","0">>
Plus2 == <<"+","0","2",":","0","0">>

\* The reminder the requests are about, in every stored form.
TargetReminders ==
    {Reminder(e[1], None, e[2], title, notes, due, done) :
        e \in {<<None, R1>>, <<Marker \o R1, None>>},
        title \in {Milk, Eggs},
        notes \in {None, Note},
        due \in {None, D10 \o Zulu, D10 \o Utc, Soon},
        done \in BOOLEAN}

\* Its neighbours in the list: one without any identifier, one with another.
NoIdReminder == Reminder(None, None, None, Eggs, None, None, FALSE)
OtherReminder == Reminder(None, R2, None, Eggs, None, None, TRUE)
Fillers == {NoIdReminder, OtherReminder}

RECURSIVE FillerSeqs(_)
FillerSeqs(n) ==
    IF n = 0 THEN {<<>>}
    ELSE LET p == FillerSeqs(n - 1) IN p \cup {s \o <<f>> : s \in p, f \in Fillers}

StoredSeqs ==
    FillerSeqs(MaxRems)
        \cup {a \o <<t>> \o b : a \in FillerSeqs(MaxRems - 1), b \in FillerSeqs(MaxRems - 1),
                                t \in TargetReminders}

StoredLists == {s \in StoredSeqs : Len(s) <= MaxRems}

\* The items the host asks to store.
DueValues ==
    {NoDate,
     FromIsoFormat(D10 \o Utc).value,
     FromIsoFormat(D12 \o Plus2).value,
     FromIsoFormat(D11 \o Utc).value}

Items ==
    {TodoItem(uid, summary, description, due, status) :
        uid \in {R1, Marker \o R1, R3, Marker, None},
        summary \in {Milk, Eggs},
        description \in {None, Note},
        due \in DueValues,
        status \in {"needs_action", "completed"}}

\* A second list, whose identifier is its display name.
ToDo == <<"T","o"," ","d","o">>

ReconcileLists == {L1, ToDo}

\* The items the host asks to create: a new item has no uid.
CreateItems ==
    {TodoItem(None, Milk, description, due, "needs_action") :
        description \in {None, <<>>, Note},
        due \in {NoDate, FromIsoFormat(D10 \o Utc).value}}

\* The uids the host asks to delete: with the scheme, with a character that
\* is reserved in a path, the scheme alone, empty, absent.
R4 == <<"R","/","4">>

DeleteUidValues == {Marker \o R1, R4, Marker, <<>>, None}

\* Up to two of them; the loop reaches a second uid only past one that
\* _extract_reminder_id accepts.
DeleteUids ==
    {<<>>} \cup {<<u>> : u \in DeleteUidValues}
           \cup {<<u, v>> : u \in {Marker \o R1, Marker}, v \in DeleteUidValues}

\* What the server may answer to the refresh's fetch (null is a legal body).
ReconcileReplies ==
    {JsonNull, JsonList(<<>>),
     JsonList(<<Reminder(None, None, R1, Milk, None, None, TRUE)>>)}

\* The state after a successful poll and the platform's set-up; the last
\* poll returned both lists, or, the entities being there, no list any more.
InitReconcile ==
    /\ \/ /\ lists_meta = (L1 :> [uuid |-> L1, title |-> Home])
                            @@ (ToDo :> [id |-> ToDo])
          /\ lists_data \in {(L1 :> s) @@ (ToDo :> <<OtherReminder>>) : s \in StoredLists}
       \/ /\ lists_meta = EmptyDict
          /\ lists_data = EmptyDict
    /\ OpIdle
    /\ PollIdle
    /\ pollOutcome = "ok"
    /\ listening = TRUE
    /\ known_ids = ReconcileLists
    /\ entities = (L1 :> 1) @@ (ToDo :> 1)
    /\ uid_arg = None
    /\ extract_ret = NotCalled

NextReconcile ==
    \/ \E item \in Items : UpdateStart(L1, item)
    \/ StatusOnlyDone
    \/ StatusDone
    \/ UpdateDone
    \/ \E list_id \in ReconcileLists, item \in CreateItems : CreateStart(list_id, item)
    \/ CreateDone
    \/ \E list_id \in ReconcileLists, uids \in DeleteUids : DeleteStart(list_id, uids)
    \/ DeleteDone
    \/ WriteFailed
    \/ \E reminders \in ReconcileReplies : RefreshDone(reminders)
    \/ RefreshFailed
    \/ OpReturn

SpecReconcile == InitReconcile /\ [][NextReconcile]_vars

----------------------------------------------------------------------------
(* The integration: the coordinator's polls and the entities' operations,  *)
(* interleaved at their awaits, against a server whose replies are free    *)

MaxLists == 2

ListName(i) == <<"L", Digits[i + 1]>>

\* The lists of the server: some carry a uuid, some only an id, one neither.
ListInfo(i) ==
    IF i % 2 = 1 THEN [uuid |-> ListName(i), title |-> Home]
    ELSE [id |-> ListName(i), title |-> Home]

UnidentifiedList == [title |-> Eggs]

RECURSIVE ServerLists(_)
ServerLists(n) ==
    IF n = 0 THEN <<UnidentifiedList>> ELSE ServerLists(n - 1) \o <<ListInfo(n)>>

RECURSIVE Subsequences(_)
Subsequences(s) ==
    IF s = <<>> THEN {<<>>}
    ELSE LET r == Subsequences(Tail(s)) IN r \cup {<<Head(s)>> \o t : t \in r}

\* What get_lists may return: any of the lists, in the server's order.
ListReplies == {JsonNull} \cup {JsonList(s) : s \in Subsequences(ServerLists(MaxLists))}

\* What get_reminders may return.
SyncReplies ==
    {JsonNull, JsonList(<<Reminder(None, None, R1, Milk, None, None, FALSE)>>)}

SyncItems ==
    {TodoItem(R1, summary, None, NoDate, status) :
        summary \in {Milk, Eggs}, status \in {"needs_action", "completed"}}

\* The entity whose operations are followed: the one of the first list,
\* once the platform has added it.
SyncEntities == known_ids \cap {ListName(1)}

SyncCreateItems == {TodoItem(None, Eggs, None, NoDate, "needs_action")}

SyncDeleteUids == {<<R1>>}

Init ==
    /\ Constructed
    /\ uid_arg = None
    /\ extract_ret = NotCalled

Next ==
    \/ PollStart
    \/ ListsFailed
    \/ \E raw_lists \in ListReplies : ListsDone(raw_lists)
    \/ \E reminders \in SyncReplies : RemindersDone(reminders)
    \/ RemindersFailed
    \/ SetupEntry
    \/ \E list_id \in SyncEntities, item \in SyncItems : UpdateStart(list_id, item)
    \/ StatusOnlyDone
    \/ StatusDone
    \/ UpdateDone
    \/ \E list_id \in SyncEntities, item \in SyncCreateItems : CreateStart(list_id, item)
    \/ CreateDone
    \/ \E list_id \in SyncEntities, uids \in SyncDeleteUids : DeleteStart(list_id, uids)
    \/ DeleteDone
    \/ WriteFailed
    \/ \E reminders \in SyncReplies : RefreshDone(reminders)
    \/ RefreshFailed
    \/ OpReturn

Spec == Init /\ [][Next]_vars

----------------------------------------------------------------------------
(* What the claims about async_update_todo_item speak of *)

IsWrite(c) == c.fn \in {"complete_reminder", "uncomplete_reminder", "update_reminder"}
IsStatusWrite(c) == c.fn \in {"complete_reminder", "uncomplete_reminder"}
IsUpdateWrite(c) == c.fn = "update_reminder"
IsFetch(c) == c.fn = "get_reminders"

Writes == SelectSeq(calls, IsWrite)
Fetches == SelectSeq(calls, IsFetch)

\* The reconciliation found its stored reminder and went on to the deltas.
Reconciling == op.kind = "update" /\ op.found

SameTitle == op.item.summary = op.current_reminder.title
SameNotes == op.item.description = op.current_reminder.notes
SameDue == DtEq(op.item.due, _parse_due_date(op.current_reminder.dueDate))
SameFlag == (op.item.status = "completed") = op.current_reminder.isCompleted

\* The PATCH to the dedicated endpoint that the desired flag asks for.
IsStatusWriteFor(c, item) ==
    /\ c.method = "PATCH"
    /\ ~c.has_json
    /\ IF item.status = "completed"
       THEN /\ c.fn = "complete_reminder"
            /\ c.endpoint = ENDPOINT_UPDATE_REMINDER(quote(op.list_id), op.reminder_id)
                                \o S_complete
       ELSE /\ c.fn = "uncomplete_reminder"
            /\ c.endpoint = ENDPOINT_UPDATE_REMINDER(quote(op.list_id), op.reminder_id)
                                \o S_uncomplete

IsUpdateWriteFor(c) ==
    /\ c.fn = "update_reminder"
    /\ c.method = "PATCH"
    /\ c.has_json
    /\ c.endpoint = ENDPOINT_UPDATE_REMINDER(quote(op.list_id), op.reminder_id)

Keys(json) == {kv[1] : kv \in json}

(* C1: when title, notes and due date equal the stored ones and the        *)
(* completion flag differs, the reconciliation issues exactly one write,   *)
(* complete_reminder or uncomplete_reminder by the new flag, and no        *)
(* update_reminder.                                                        *)
C1_StatusOnlyOneCall ==
    (Reconciling /\ SameTitle /\ SameNotes /\ SameDue /\ ~SameFlag) =>
        /\ Len(Writes) = 1
        /\ IsStatusWriteFor(Writes[1], op.item)

C1_Witness ==
    /\ Reconciling /\ SameTitle /\ SameNotes /\ SameDue /\ ~SameFlag
    /\ opPc = "done" /\ ~outcome.raised
    /\ op.item.status = "completed"
    /\ op.current_reminder.dueDate = D10 \o Zulu
    /\ Writes[1].fn = "complete_reminder"

(* C2: when flag, notes and due date equal the stored ones and the title   *)
(* differs, the reconciliation issues no complete/uncomplete call and      *)
(* exactly one update_reminder call, whose body is the title alone.        *)
C2_TitleOnlyOneUpdate ==
    (Reconciling /\ ~SameTitle /\ SameNotes /\ SameDue /\ SameFlag) =>
        /\ Len(Writes) = 1
        /\ IsUpdateWriteFor(Writes[1])
        /\ Writes[1].json = {<<"title", op.item.summary>>}

C2_Witness ==
    /\ Reconciling /\ ~SameTitle /\ SameNotes /\ SameDue /\ SameFlag
    /\ opPc = "done" /\ ~outcome.raised
    /\ op.current_reminder.notes = Note
    /\ op.current_reminder.dueDate = D10 \o Utc
    /\ Writes[1].json = {<<"title", Eggs>>}

(* C3 as stated: every reconciliation in which the flag changed and one    *)
(* of title, notes, due date changed issues exactly one complete or        *)
(* uncomplete call and exactly one update_reminder call, in that order.    *)
C3_Original ==
    (Reconciling /\ ~SameFlag /\ ~(SameTitle /\ SameNotes /\ SameDue) /\ opPc = "done") =>
        /\ Len(Writes) = 2
        /\ IsStatusWriteFor(Writes[1], op.item)
        /\ IsUpdateWriteFor(Writes[2])

(* C3 amended: such a reconciliation issues exactly one complete or        *)
(* uncomplete call, chosen by the new flag, first; when that call          *)
(* succeeds it issues exactly one update_reminder call, after it; when     *)
(* that call fails it issues no update_reminder call.                      *)
C3_StatusThenUpdate ==
    (Reconciling /\ ~SameFlag /\ ~(SameTitle /\ SameNotes /\ SameDue)) =>
        /\ Len(Writes) >= 1
        /\ IsStatusWriteFor(Writes[1], op.item)
        /\ IF opPc = "await_status" \/ outcome.names = <<1>>
           THEN Len(Writes) = 1
           ELSE Len(Writes) = 2 /\ IsUpdateWriteFor(Writes[2])

C3_Witness ==
    /\ Reconciling /\ ~SameFlag /\ SameTitle /\ ~SameNotes /\ SameDue
    /\ opPc = "done" /\ ~outcome.raised
    /\ Len(Writes) = 2
    /\ Writes[1].fn = "uncomplete_reminder"
    /\ Writes[2].json = {<<"notes", Note>>}

(* C4: whenever the reconciliation issues an update_reminder call, the     *)
(* fields its body carries are exactly those of title, notes and due date  *)
(* whose delta is true, whatever the desired value, also no notes or no    *)
(* due date.                                                               *)
C4_BodyIsChangedFields ==
    Reconciling =>
        \A i \in 1..Len(calls) :
            IsUpdateWrite(calls[i]) =>
                Keys(calls[i].json) =
                    (IF SameTitle THEN {} ELSE {"title"})
                        \cup (IF SameNotes THEN {} ELSE {"notes"})
                        \cup (IF SameDue THEN {} ELSE {"dueDate"})

\* No reminder of the sequence has the normalised identifier rid.
RECURSIVE MatchesNone(_, _)
MatchesNone(reminders, rid) ==
    \/ reminders = <<>>
    \/ /\ LET uid == _reminder_uid(Head(reminders))
          IN  ~Truthy(uid) \/ _extract_reminder_id(uid).value # rid
       /\ MatchesNone(Tail(reminders), rid)

(* C5: when the desired item's normalised identifier matches no reminder   *)
(* of the list's sequence in the snapshot, async_update_todo_item fails    *)
(* with the not-found error naming the item and the list, issues no        *)
(* request at all, and leaves the snapshot unchanged.                      *)
C5_UnknownIsNotFound ==
    [][(/\ opPc = "idle" /\ opPc' # "idle" /\ op'.kind = "update"
        /\ Truthy(op'.item.uid)
        /\ MatchesNone(Get(lists_data, op'.list_id, <<>>),
                       _extract_reminder_id(op'.item.uid).value))
       => /\ opPc' = "done"
          /\ outcome' = Fail("not_found", <<op'.item.uid, _display_name(op'.list_id)>>)
          /\ calls' = <<>>
          /\ UNCHANGED snapshot]_vars

\* The reminders of the sequence that carry an identifier string whose
\* normalised form is rid, in order.
Matching(reminders, rid) ==
    LET Matches(r) == /\ Truthy(_reminder_uid(r))
                      /\ _extract_reminder_id(_reminder_uid(r)).value = rid
    IN  SelectSeq(reminders, Matches)

(* C21: an update of an item whose normalised identifier is that of a      *)
(* reminder stored for the list locates that reminder, whatever the other  *)
(* reminders of the list are, also when reminders earlier in the sequence  *)
(* carry no externalId, uuid or id string; such a reminder does not make   *)
(* the update fail.                                                        *)
C21_LookupSkipsUnidentified ==
    [][(/\ opPc = "idle" /\ opPc' # "idle" /\ op'.kind = "update"
        /\ Truthy(op'.item.uid)
        /\ Matching(Get(lists_data, op'.list_id, <<>>),
                    _extract_reminder_id(op'.item.uid).value) # <<>>)
       => /\ op'.found
          /\ op'.current_reminder =
                Head(Matching(Get(lists_data, op'.list_id, <<>>),
                              _extract_reminder_id(op'.item.uid).value))
          /\ outcome'.error # "missing_identifier"]_vars

(* C6: a reconciliation that found its stored reminder and whose writes    *)
(* all succeeded issues exactly one fetch of this list's reminders,        *)
(* completed ones included, after all of its writes: on the status-only    *)
(* path, on the general path, and when nothing changed.                    *)
C6_OneRefreshAfterWrites ==
    Reconciling =>
        /\ Len(Fetches) <= 1
        /\ Len(Fetches) = 1 => calls = Writes \o Fetches
        /\ (opPc = "done" /\ ~outcome.raised) =>
              /\ Len(Fetches) = 1
              /\ Fetches[1].method = "GET"
              /\ Fetches[1].endpoint =
                    ENDPOINT_LISTS \o S_slash \o quote(op.list_id) \o S_completed_true
              /\ Len(Writes) = (IF SameFlag THEN 0 ELSE 1)
                                + (IF SameTitle /\ SameNotes /\ SameDue THEN 0 ELSE 1)

C6_Witness ==
    /\ Reconciling /\ ~SameFlag /\ ~SameDue
    /\ opPc = "done" /\ ~outcome.raised
    /\ Len(calls) = 3 /\ IsStatusWrite(calls[1]) /\ IsUpdateWrite(calls[2])
    /\ IsFetch(calls[3])

C6_WitnessNothingChanged ==
    /\ Reconciling /\ SameFlag /\ SameTitle /\ SameNotes /\ SameDue
    /\ opPc = "done" /\ ~outcome.raised
    /\ Len(calls) = 1 /\ IsFetch(calls[1])

(* C14: a stored due string with a "Z" suffix and one with the offset     *)
(* "+00:00" that denote the same instant parse to equal values; for a      *)
(* reconciliation whose desired due date is that instant due_changed is    *)
(* false and, title and notes being equal too, no update_reminder call is  *)
(* issued.                                                                 *)
C14_SameInstantNoDueDelta ==
    (Reconciling /\ op.current_reminder.dueDate \in {D10 \o Zulu, D10 \o Utc}) =>
        /\ _parse_due_date(op.current_reminder.dueDate) = Aware(WallText(D10), 0)
        /\ DtEq(op.item.due, Aware(WallText(D10), 0)) =>
              /\ ~op.d.due_changed
              /\ (SameTitle /\ SameNotes) =>
                    \A n \in 1..Len(calls) : ~IsUpdateWrite(calls[n])

C14_Witness ==
    /\ Reconciling /\ opPc = "done" /\ ~outcome.raised
    /\ op.current_reminder.dueDate = D10 \o Zulu
    /\ op.item.due = FromIsoFormat(D12 \o Plus2).value
    /\ SameTitle /\ SameNotes /\ ~SameFlag
    /\ ~op.d.due_changed
    /\ Len(calls) = 2 /\ IsStatusWrite(calls[1]) /\ IsFetch(calls[2])

ReconcileWriteAwaits == {"await_status_only", "await_status", "await_update"}

(* C13: when a write of a reconciliation (complete, uncomplete or update)  *)
(* fails, async_update_todo_item raises to its caller, has issued no       *)
(* request after the failed one, in particular no refresh, and no step of  *)
(* it has written lists_meta or lists_data or notified a listener.         *)
C13_FailedWriteRaisesAndStops ==
    [][/\ (op'.kind = "update" /\ opPc' \in ReconcileWriteAwaits) =>
              /\ UNCHANGED snapshot
              /\ notified' = 0
              /\ SelectSeq(calls', IsFetch) = <<>>
       /\ (op.kind = "update" /\ opPc \in ReconcileWriteAwaits /\ opPc' = "done") =>
              /\ outcome'.raised
              /\ outcome'.error = "request_failed"
              /\ calls' = calls
              /\ notified' = 0
              /\ UNCHANGED snapshot
       /\ (op.kind = "update" /\ opPc = "done" /\ outcome.raised) =>
              /\ opPc' = "idle"
              /\ calls' = <<>>
              /\ UNCHANGED snapshot]_vars

C13_Witness ==
    /\ Reconciling /\ opPc = "done"
    /\ outcome = Fail("request_failed", <<2>>)
    /\ Len(calls) = 2 /\ IsStatusWrite(calls[1]) /\ IsUpdateWrite(calls[2])
    /\ notified = 0
    /\ lists_data[op.list_id] # <<>>

----------------------------------------------------------------------------
(* What the claims about the coordinator speak of *)

HasIdentifier(list_info) == Truthy(ListIdOf(list_info))

\* The identifiers of the lists of raw_lists that have one, in order.
IdentifiedIds(raw_lists) ==
    LET sel == SelectSeq(raw_lists, HasIdentifier)
    IN  [i \in 1..Len(sel) |-> ListIdOf(sel[i])]

InfoOf(raw_lists, list_id) ==
    CHOOSE info \in {raw_lists[i] : i \in 1..Len(raw_lists)} : ListIdOf(info) = list_id

\* This step ends a full poll with success.
PollSucceeds == pollPc # "idle" /\ pollPc' = "idle" /\ pollOutcome' = "ok"

(* C7: a full poll whose enumeration succeeded succeeds whatever fetches   *)
(* fail: every identified list is fetched, in order, also after a failed   *)
(* fetch; the new snapshot maps a list whose fetch failed to the empty     *)
(* sequence and keeps its metadata, and maps every other list to the       *)
(* reminders fetched for it.                                               *)
C7_FailedFetchDegradesToEmpty ==
    [][PollSucceeds =>
        LET f == poll'.fetched
            ids == IdentifiedIds(poll'.raw_lists)
        IN  /\ [i \in 1..Len(f) |-> f[i].list_id] = ids
            /\ DOMAIN lists_data' = {ids[i] : i \in 1..Len(ids)}
            /\ DOMAIN lists_meta' = DOMAIN lists_data'
            /\ \A i \in 1..Len(f) :
                  /\ lists_meta'[f[i].list_id] = InfoOf(poll'.raw_lists, f[i].list_id)
                  /\ lists_data'[f[i].list_id] =
                        IF f[i].failed \/ f[i].reminders.null THEN <<>>
                        ELSE f[i].reminders.body]_vars

C7_Witness ==
    /\ pollPc = "idle" /\ pollOutcome = "ok"
    /\ Len(poll.fetched) = 2
    /\ poll.fetched[1].failed /\ ~poll.fetched[2].failed
    /\ lists_data = poll.lists_data /\ lists_meta = poll.lists_meta
    /\ lists_data[poll.fetched[1].list_id] = <<>>
    /\ poll.fetched[1].list_id \in DOMAIN lists_meta
    /\ lists_data[poll.fetched[2].list_id] # <<>>

(* C8: when the enumeration of a full poll fails, the poll ends with       *)
(* UpdateFailed, it has issued no fetch of reminders, and no step of it    *)
(* has written lists_meta or lists_data.                                   *)
C8_FailedEnumerationKeepsSnapshot ==
    [][/\ (pollPc = "idle" /\ pollPc' = "await_lists") => UNCHANGED snapshot
       /\ (pollPc # "idle" /\ pollOutcome' = "UpdateFailed") =>
              /\ pollPc = "await_lists" /\ pollPc' = "idle"
              /\ pollCalls' = <<get_lists>>
              /\ UNCHANGED snapshot]_vars

C8_Witness ==
    /\ pollPc = "idle" /\ pollOutcome = "UpdateFailed"
    /\ pollCalls = <<get_lists>>
    /\ listening
    /\ \E l \in DOMAIN lists_data : lists_data[l] # <<>>

\* This step is a per-list refresh whose fetch failed.
RefreshFails ==
    opPc = "await_refresh" /\ opPc' = "done" /\ outcome' = LoggedRefreshError

(* C9: a per-list refresh whose fetch fails raises nothing, leaves the     *)
(* list's sequence and the rest of the snapshot as they were, and does     *)
(* not notify the listeners.                                               *)
C9_FailedRefreshKeepsSnapshot ==
    [][RefreshFails =>
        /\ ~outcome'.raised
        /\ UNCHANGED snapshot
        /\ notified' = notified
        /\ UNCHANGED <<known_ids, entities>>]_vars

C9_Witness ==
    /\ opPc = "done" /\ outcome = LoggedRefreshError
    /\ op.list_id \in DOMAIN lists_data
    /\ lists_data[op.list_id] # <<>>
    /\ notified = 0

\* This step is a per-list refresh whose fetch succeeded.
RefreshSucceeds ==
    opPc = "await_refresh" /\ opPc' = "done" /\ outcome' = Ok

(* C15: a successful per-list refresh of list L replaces L's sequence by   *)
(* what it fetched and nothing else: lists_meta is unchanged, every other  *)
(* list keeps its sequence, and the listeners are notified exactly once.   *)
C15_RefreshReplacesOneList ==
    [][RefreshSucceeds =>
        /\ lists_meta' = lists_meta
        /\ DOMAIN lists_data' = DOMAIN lists_data \cup {op.list_id}
        /\ \A l \in DOMAIN lists_data \ {op.list_id} : lists_data'[l] = lists_data[l]
        /\ \E reminders \in SyncReplies : lists_data'[op.list_id] = OrEmpty(reminders)
        /\ notified = 0 /\ notified' = 1]_vars

C15_Witness ==
    /\ opPc = "done" /\ outcome = Ok /\ notified = 1
    /\ op.kind = "update" /\ op.found /\ op.installed_at = "none"
    /\ lists_data[op.list_id] = <<>>
    /\ \E l \in DOMAIN lists_data \ {op.list_id} : lists_data[l] # <<>>
    /\ DOMAIN lists_meta = DOMAIN lists_data

(* C16: a per-list refresh of list L whose fetch completes after a full    *)
(* poll, overlapping it, has replaced the snapshot is still applied: in    *)
(* the snapshot that poll installed L's sequence becomes what the refresh  *)
(* fetched, and lists_meta and the other lists keep what the poll wrote.   *)
C16_OvertakenRefreshStillApplied ==
    [][(/\ RefreshSucceeds
        /\ op.installed_at = "await_refresh"
        /\ pollPc = "idle" /\ pollOutcome = "ok") =>
            /\ lists_meta = poll.lists_meta /\ lists_data = poll.lists_data
            /\ lists_meta' = poll.lists_meta
            /\ \E reminders \in SyncReplies :
                  lists_data' = Put(poll.lists_data, op.list_id, OrEmpty(reminders))]_vars

C16_Witness ==
    /\ opPc = "done" /\ outcome = Ok /\ notified = 1
    /\ op.installed_at = "await_refresh"
    /\ pollPc = "idle" /\ pollOutcome = "ok"
    /\ lists_meta = poll.lists_meta
    /\ op.list_id \in DOMAIN poll.lists_data
    /\ poll.lists_data[op.list_id] = <<>>
    /\ lists_data[op.list_id] # <<>>
    /\ \E l \in DOMAIN lists_data \ {op.list_id} :
          lists_data[l] = poll.lists_data[l] /\ lists_data[l] # <<>>

(* C18: after a successful full poll the keys of lists_meta and of         *)
(* lists_data are exactly the identifiers (uuid, else id) of the returned  *)
(* lists that have one; a returned list without identifier is in neither   *)
(* map, and the poll fetched the reminders of the identified lists only.   *)
C18_KeysAreIdentifiedLists ==
    [][PollSucceeds =>
        LET ids == IdentifiedIds(poll'.raw_lists)
            keys == {ids[i] : i \in 1..Len(ids)}
        IN  /\ DOMAIN lists_meta' = keys
            /\ DOMAIN lists_data' = keys
            /\ \A l \in keys : Truthy(l)
            /\ pollCalls' = <<get_lists>>
                    \o [i \in 1..Len(ids) |-> get_reminders(ids[i], TRUE)]]_vars

C18_Witness ==
    /\ pollPc = "idle" /\ pollOutcome = "ok"
    /\ poll.raw_lists = <<UnidentifiedList, ListInfo(1), ListInfo(2)>>
    /\ Len(pollCalls) = 3
    /\ lists_meta = poll.lists_meta
    /\ DOMAIN lists_meta = {ListName(1), ListName(2)}
    /\ DOMAIN lists_data = {ListName(1), ListName(2)}

\* This step is a step of the full poll.
PollStep == pollVars' # pollVars

(* C17: a full poll builds its maps apart and installs both in one step:   *)
(* no step of a poll before its last writes lists_meta or lists_data, so   *)
(* at each of its awaits a consumer reads the previous snapshot whole; the *)
(* last step stores the two finished maps, with the same keys, together.   *)
C17_PollInstallsInOneStep ==
    [][PollStep =>
        IF PollSucceeds
        THEN /\ lists_meta' = poll'.lists_meta
             /\ lists_data' = poll'.lists_data
             /\ DOMAIN lists_meta' = DOMAIN lists_data'
             /\ DOMAIN lists_data' =
                    {ListIdOf(info) : info \in {x \in {poll'.raw_lists[i] :
                        i \in 1..Len(poll'.raw_lists)} : HasIdentifier(x)}}
        ELSE UNCHANGED snapshot]_vars

C17_Witness ==
    /\ pollPc = "await_reminders" /\ Len(poll.fetched) = 1
    /\ listening
    /\ DOMAIN lists_meta = DOMAIN lists_data
    /\ Cardinality(DOMAIN lists_data) = 2
    /\ \A l \in DOMAIN lists_data : lists_data[l] # <<>>
    /\ DOMAIN poll.lists_data # DOMAIN lists_data
    /\ DOMAIN poll.lists_meta # DOMAIN poll.lists_data
    /\ poll.lists_data[poll.fetched[1].list_id] = <<>>

(* C22: across full polls and refresh notifications _sync_entities adds at *)
(* most one entity per list identifier: known_ids only grows, a known      *)
(* identifier keeps its one entity (also when its list has left the        *)
(* snapshot and comes back), and once the platform listens every           *)
(* identifier of lists_data is known and has its entity.                   *)
C22_OneEntityPerList ==
    [][/\ known_ids \subseteq known_ids'
       /\ DOMAIN entities' = known_ids'
       /\ \A l \in known_ids' : entities'[l] = 1
       /\ listening' => DOMAIN lists_data' \subseteq known_ids']_vars

\* The first list was known, a poll dropped it from both maps, and a
\* refresh has brought it back into lists_data and notified the listeners.
C22_Witness ==
    /\ listening
    /\ opPc = "done" /\ outcome = Ok /\ notified = 1
    /\ op.list_id \in known_ids
    /\ op.list_id \notin DOMAIN lists_meta
    /\ op.list_id \in DOMAIN lists_data
    /\ entities[op.list_id] = 1
    /\ Cardinality(known_ids) = 2

(* C19: in every reachable state lists_data and lists_meta have the same   *)
(* list identifiers as keys, also after a refresh of a list that the       *)
(* latest full poll no longer returned.                                    *)
C19_SameKeys == DOMAIN lists_data = DOMAIN lists_meta

IsMutation(c) ==
    c.fn \in {"create_reminder", "update_reminder", "delete_reminder",
              "complete_reminder", "uncomplete_reminder"}

\* The operation changed its list on the server and its refresh completed.
MutatedAndRefreshed ==
    /\ opPc = "done" /\ outcome = Ok
    /\ SelectSeq(calls, IsMutation) # <<>>

(* C20: once the refresh that follows a successful mutation of list L has  *)
(* completed, no full poll that was in progress replaces L's sequence by   *)
(* reminders it had fetched before the mutation: the first poll to replace *)
(* the snapshot after the refresh had not got L's reminders when the       *)
(* operation started.                                                      *)
C20_NoRevertToStale ==
    (MutatedAndRefreshed /\ op.installed_at = "done") => ~op.polled

----------------------------------------------------------------------------
(* What the claims about identifiers in requests speak of *)

\* An identifier that is absent, empty, or empty once the scheme is stripped.
Unusable(uid) ==
    \/ ~Truthy(uid)
    \/ StartsWith(uid, Marker) /\ SubSeq(uid, Len(Marker) + 1, Len(uid)) = <<>>

\* The paths of the requests about one reminder, for a given identifier.
ReminderPaths(list_name, reminder_id) ==
    {ENDPOINT_UPDATE_REMINDER(list_name, reminder_id),
     ENDPOINT_DELETE_REMINDER(list_name, reminder_id),
     ENDPOINT_COMPLETE_REMINDER(list_name, reminder_id),
     ENDPOINT_UNCOMPLETE_REMINDER(list_name, reminder_id)}

AboutOneReminder(c) ==
    c.fn \in {"update_reminder", "delete_reminder", "complete_reminder",
              "uncomplete_reminder"}

\* The first uid of a delete request that is unusable; 0 when there is none.
FirstUnusable(uids) ==
    IF \E j \in 1..Len(uids) : Unusable(uids[j])
    THEN CHOOSE j \in 1..Len(uids) :
            Unusable(uids[j]) /\ \A k \in 1..(j - 1) : ~Unusable(uids[k])
    ELSE 0

(* C11: an update whose item identifier is absent, empty, or empty once    *)
(* the scheme is stripped fails with the missing-identifier error and      *)
(* issues no request; a delete fails with that error on reaching such a    *)
(* uid; and no request is ever issued whose path holds an empty reminder   *)
(* identifier.                                                             *)
C11_MissingIdentifierFails ==
    /\ (op.kind = "update" /\ Unusable(op.item.uid)) =>
          /\ opPc = "done"
          /\ outcome = Fail("missing_identifier", <<>>)
          /\ calls = <<>>
    /\ (op.kind = "delete" /\ FirstUnusable(op.uids) # 0
            /\ op.i >= FirstUnusable(op.uids)) =>
          /\ opPc = "done"
          /\ op.i = FirstUnusable(op.uids)
          /\ outcome = Fail("missing_identifier", <<>>)
          /\ Len(calls) = op.i - 1
    /\ \A n \in 1..Len(calls) :
          AboutOneReminder(calls[n]) =>
              calls[n].endpoint \notin ReminderPaths(quote(op.list_id), <<>>)

\* The reminder identifier the n-th request of the operation is about.
ReminderIdOfCall(n) ==
    IF op.kind = "delete" THEN _extract_reminder_id(op.uids[n]).value
    ELSE op.reminder_id

(* C12: in every request the client issues, the list identifier and the    *)
(* reminder identifier placed in the path are percent-encoded: for         *)
(* get_reminders, create_reminder, update_reminder, delete_reminder,       *)
(* complete_reminder and uncomplete_reminder.                              *)
C12_PathIdsPercentEncoded ==
    \A n \in 1..Len(calls) :
        LET c == calls[n]
            l == quote(op.list_id)
        IN  CASE c.fn = "get_reminders" ->
                    c.endpoint \in {ENDPOINT_LIST_REMINDERS(l),
                                    ENDPOINT_LIST_REMINDERS(l) \o S_completed_true}
              [] c.fn = "create_reminder" ->
                    c.endpoint = ENDPOINT_CREATE_REMINDER(l)
              [] c.fn = "update_reminder" ->
                    c.endpoint = ENDPOINT_UPDATE_REMINDER(l, quote(ReminderIdOfCall(n)))
              [] c.fn = "delete_reminder" ->
                    c.endpoint = ENDPOINT_DELETE_REMINDER(l, quote(ReminderIdOfCall(n)))
              [] c.fn = "complete_reminder" ->
                    c.endpoint = ENDPOINT_COMPLETE_REMINDER(l, quote(ReminderIdOfCall(n)))
              [] c.fn = "uncomplete_reminder" ->
                    c.endpoint = ENDPOINT_UNCOMPLETE_REMINDER(l, quote(ReminderIdOfCall(n)))

\* The identifier a usable uid stands for: the uid without its leading
\* scheme.
Normalized(uid) ==
    IF StartsWith(uid, Marker) THEN SubSeq(uid, Len(Marker) + 1, Len(uid)) ELSE uid

IsDelete(c) == c.fn = "delete_reminder"

\* What a delete request has done so far is what the claim allows.
DeleteInOrder ==
    op.kind = "delete" =>
        LET deletes == SelectSeq(calls, IsDelete)
            k == FirstUnusable(op.uids)
            l == quote(op.list_id)
        IN  /\ calls = deletes \o Fetches
            /\ Len(Fetches) <= 1
            /\ Len(deletes) <= Len(op.uids)
            /\ \A j \in 1..Len(deletes) :
                  /\ k = 0 \/ j < k
                  /\ deletes[j].method = "DELETE"
                  /\ deletes[j].endpoint \in
                        {ENDPOINT_DELETE_REMINDER(l, Normalized(op.uids[j])),
                         ENDPOINT_DELETE_REMINDER(l, quote(Normalized(op.uids[j])))}
            /\ Len(Fetches) = 1 =>
                  /\ Len(deletes) = Len(op.uids)
                  /\ Fetches[1] = get_reminders(op.list_id, TRUE)
            /\ (opPc = "done" /\ ~outcome.raised) =>
                  /\ k = 0
                  /\ Len(deletes) = Len(op.uids)
                  /\ Len(Fetches) = 1
            /\ (opPc = "done" /\ outcome.raised) =>
                  /\ Fetches = <<>>
                  /\ notified = 0

----------------------------------------------------------------------------
(* C10: _extract_reminder_id maps every identifier that starts with the    *)
(* marker to the identifier with exactly that leading marker removed, the  *)
(* rest unchanged, and every non-empty identifier that does not start with *)
(* the marker to itself.                                                   *)
C10_StripsLeadingMarkerOnly ==
    (extract_ret # NotCalled /\ Truthy(uid_arg)) =>
        /\ ~extract_ret.raised
        /\ extract_ret.value =
              IF StartsWith(uid_arg, Marker)
              THEN SubSeq(uid_arg, Len(Marker) + 1, Len(uid_arg))
              ELSE uid_arg

====
